---- MODULE Spec2Model ----
(***************************************************************************)
(* Model of the aic C++ wrapper (include/aic.hpp, src/aic.cpp): four       *)
(* move-only RAII classes (Model, Processor, ProcessorContext, VadContext) *)
(* that each own one opaque engine handle, the create functions that wrap  *)
(* the handle the engine writes, and the forwarding member functions.      *)
(*                                                                         *)
(* The engine behind the flat C ABI (aic_* functions) is not part of the   *)
(* source tree.  It is modelled as an environment: every status-returning  *)
(* engine function may return any status code, a create function may write *)
(* a fresh handle or leave the out-pointer NULL, whatever it returns.      *)
(* What the model records of the engine is only what the wrapper passes to *)
(* it (function, handle, arguments) and what it gives back.                *)
(***************************************************************************)
EXTENDS Integers, Sequences, FiniteSets, TLC

\* ------------------------------------------------------------------ bounds

\* Number of storage locations in which wrapper objects can be constructed.
NumObjs == 2

\* Number of handles the engine can hand out before it is exhausted.
MaxHandles == 2

\* nullptr: the value of a wrapper's handle field when it owns nothing.
NULL == 0

Objs == 1..NumObjs

Handles == 1..MaxHandles

\* A non-null pointer value that is no handle: what a failing engine create
\* function may leave in its out-pointer.
Junk == MaxHandles + 1

Pointers == Handles \cup {Junk}

\* ------------------------------------------------------------- value domains

\* The four wrapper classes.
Kinds == {"Model", "Processor", "ProcessorContext", "VadContext"}

\* enum class ErrorCode : int.  Every enumerator is defined to have the value
\* of the engine constant of the same meaning, so a value of either type is
\* represented by the engine constant that names that integer.
ErrorCode ==
    { "AIC_ERROR_CODE_SUCCESS",
      "AIC_ERROR_CODE_NULL_POINTER",
      "AIC_ERROR_CODE_MODEL_NOT_INITIALIZED",
      "AIC_ERROR_CODE_INTERNAL_ERROR" }

\* ErrorCode::Success = AIC_ERROR_CODE_SUCCESS
Success == "AIC_ERROR_CODE_SUCCESS"

\* The status values the engine's functions return (::AicErrorCode).
AicErrorCode == ErrorCode

\* The status values an engine function can return when it is passed handle h
\* (needsHandle: the function takes a handle that must not be NULL) for a
\* processor that is or is not initialized (needsInit: the function is one of
\* the processing functions).  As the functions are documented: a NULL handle
\* is AIC_ERROR_CODE_NULL_POINTER, processing before initialization is the
\* not-initialized code; otherwise the engine decides.
EngineStatus(needsHandle, h, needsInit, isInit) ==
    IF needsHandle /\ h = NULL THEN {"AIC_ERROR_CODE_NULL_POINTER"}
    ELSE IF needsInit /\ ~isInit THEN {"AIC_ERROR_CODE_MODEL_NOT_INITIALIZED"}
    ELSE AicErrorCode

\* A translation that knows success and reports everything else as one error.
static_cast_Collapsed(rc) ==
    IF rc = "AIC_ERROR_CODE_SUCCESS" THEN rc ELSE "AIC_ERROR_CODE_INTERNAL_ERROR"

\* static_cast<ErrorCode>(static_cast<int>(rc)): the enumeration is converted
\* to its integer and that integer is taken as an ErrorCode; the integer is
\* not changed on the way.
static_cast_ErrorCode(rc) == rc

\* Result<T>::ok()
ok(error) == error = Success

\* The engine function each class's destructor and move assignment call.
DestroyFn(kind) ==
    CASE kind = "Model"            -> "aic_model_destroy"
      [] kind = "Processor"        -> "aic_processor_destroy"
      [] kind = "ProcessorContext" -> "aic_processor_context_destroy"
      [] kind = "VadContext"       -> "aic_vad_context_destroy"

\* One call of an engine function, as the wrapper makes it: the function, the
\* handle passed, the other arguments, the status returned ("void" for a
\* function that returns none) and the handle written to an out-pointer.
EngineCall(fn, h, arg, rc, out) ==
    [fn |-> fn, h |-> h, arg |-> arg, rc |-> rc, out |-> out]

\* A storage location that holds no object.
Dead == [live |-> FALSE, kind |-> "none", h |-> NULL]

\* A live wrapper object of class kind holding handle h (or NULL).
Wrapper(kind, h) == [live |-> TRUE, kind |-> kind, h |-> h]

\* What the engine holds for a pointer that is not a live handle.
Free == [kind |-> "none", parent |-> NULL, init |-> FALSE]

\* struct ProcessorConfig { sample_rate; num_channels; num_frames;
\* allow_variable_frames; }
ProcessorConfig(sample_rate, num_channels, num_frames, allow_variable_frames) ==
    [sample_rate |-> sample_rate, num_channels |-> num_channels,
     num_frames |-> num_frames, allow_variable_frames |-> allow_variable_frames]

\* A default-constructed ProcessorConfig: the default member initializers.
DefaultConfig == ProcessorConfig(0, 1, 0, FALSE)

\* ---------------------------------------------------------------- variables

VARIABLES
    obj,            \* storage location -> the wrapper object in it (class, handle field)
    engine,         \* engine: pointer -> for a live handle the class it was created
                    \*   as, the handle it was created from (Junk once that one is
                    \*   destroyed) and whether initialize has succeeded on it
    misuse,         \* engine: the destroy calls that were not passed a live handle
                    \*   of the function's own type
    wrapper_id_set, \* the function-local static of Processor::create
    lastOp,         \* the last wrapper operation: what it was called on, the engine
                    \*   calls it made, what it returned
    thr,            \* thread -> where it is inside a Processor member function
    inflight,       \* engine: pointer -> number of processor calls now in progress on it
    config,         \* the ProcessorConfig object the caller holds
    param           \* engine: parameter -> its current value in the processor whose
                    \*   parameters are followed (none are, where this is empty)

vars == <<obj, engine, misuse, wrapper_id_set, lastOp, thr, inflight, config, param>>

\* ------------------------------------------------- destructor, move, engine

DestroyFns == {DestroyFn(k) : k \in Kinds}

\* The class whose handles a destroy function takes.
KindOf(fn) == CHOOSE k \in Kinds : DestroyFn(k) = fn

\* A Model destructor that also destroys the processors created from the model,
\* and a Processor destructor that also destroys the contexts created from it.
DtorCallsCascade(kind, h) ==
    IF h # NULL
    THEN <<EngineCall(DestroyFn(kind), h, <<>>, "void", NULL)>>
         \o (IF \E x \in Handles : engine[x].parent = h
             THEN LET x == CHOOSE y \in Handles : engine[y].parent = h
                  IN  <<EngineCall(DestroyFn(engine[x].kind), x, <<>>, "void", NULL)>>
             ELSE <<>>)
    ELSE <<>>

\* ~T(): if (handle_) aic_*_destroy(handle_);
DtorCalls(kind, h) ==
    IF h # NULL
    THEN <<EngineCall(DestroyFn(kind), h, <<>>, "void", NULL)>>
    ELSE <<>>

\* A move that forgets to clear the source.
MovedFromKept(h) == h

\* T(T&& other): the value the source's handle field is left with
\* (other.handle_ = nullptr).
MovedFrom(h) == NULL

\* A move assignment that overwrites the handle it held without destroying it.
MoveAssignCallsNone(kind, h) == <<>>

\* operator=(T&& other), this != &other: the engine calls made for the handle
\* the target held (if (handle_) aic_*_destroy(handle_)).
MoveAssignCalls(kind, h) == DtorCalls(kind, h)

\* The handles the engine has handed out and not destroyed.
LiveHandles(eng) == {x \in Handles : eng[x].kind # "none"}

\* The engine after one call c made by the wrapper.  A create function that
\* wrote a handle makes it live; a destroy function passed a live handle of its
\* type frees it (a handle is an address: the engine may hand it out again) and
\* the handles created from it lose their parent; a successful initialize marks
\* the processor initialized.
EngineAfterCall(eng, c) ==
    IF c.fn \in DestroyFns
    THEN IF c.h \in Handles /\ eng[c.h].kind = KindOf(c.fn)
         THEN [x \in DOMAIN eng |->
                  IF x = c.h THEN Free
                  ELSE IF eng[x].parent = c.h THEN [eng[x] EXCEPT !.parent = Junk]
                  ELSE eng[x]]
         ELSE eng
    ELSE IF c.out \in Handles
    THEN [eng EXCEPT ![c.out] =
             [kind |-> c.arg[1], parent |-> c.h, init |-> FALSE]]
    ELSE IF c.fn = "aic_processor_initialize" /\ c.rc = Success /\ c.h \in Handles
    THEN [eng EXCEPT ![c.h].init = TRUE]
    ELSE eng

\* Whether call c is a destroy call the engine must not be given: the pointer
\* is not a live handle of the function's type (freed already, never handed
\* out, or of another type).
IsMisuse(eng, c) ==
    /\ c.fn \in DestroyFns
    /\ ~(c.h \in Handles /\ eng[c.h].kind = KindOf(c.fn))

RECURSIVE EngineAfter(_, _)
\* The engine after the calls of one wrapper operation, in order.
EngineAfter(eng, calls) ==
    IF calls = <<>> THEN eng
    ELSE EngineAfter(EngineAfterCall(eng, Head(calls)), Tail(calls))

RECURSIVE MisuseIn(_, _)
\* The misused destroy calls among the calls of one wrapper operation.
MisuseIn(eng, calls) ==
    IF calls = <<>> THEN {}
    ELSE (IF IsMisuse(eng, Head(calls)) THEN {Head(calls)} ELSE {})
         \cup MisuseIn(EngineAfterCall(eng, Head(calls)), Tail(calls))

FreeHandles == Handles \ LiveHandles(engine)

\* The out-pointer values an engine create function can leave behind when it
\* returns rc: on success the new handle, an address at which no handle is
\* live; on an error nothing (the pointer stays as the caller set it, NULL),
\* or a pointer that is no handle.
EngineOut(rc) ==
    IF rc = Success
    THEN {CHOOSE x \in FreeHandles : \A y \in FreeHandles : x <= y}
    ELSE {NULL, Junk}

\* The status values an engine create function can return when passed argh.
CreateStatus(needsHandle, argh) ==
    {rc \in EngineStatus(needsHandle, argh, FALSE, FALSE) :
        rc = Success => FreeHandles # {}}

\* The storage location a new object is constructed in: the first free one.
\* (Which location an object lives in has no meaning to the program.)
FreeObjs == {i \in Objs : ~obj[i].live}

NewObj == CHOOSE i \in FreeObjs : \A j \in FreeObjs : i <= j

\* The record of a wrapper operation.
Op(op, kind, self, other, calls, ret) ==
    [op |-> op, kind |-> kind, self |-> self, other |-> other,
     calls |-> calls, ret |-> ret, arg |-> <<>>]

\* The record of a member function called with the arguments arg.
OpArgs(op, kind, self, arg, calls, ret) ==
    [Op(op, kind, self, 0, calls, ret) EXCEPT !.arg = arg]

\* A thread that is in no member function.
Idle == [pc |-> "idle", op |-> "none", self |-> 0, arg |-> <<>>, h |-> NULL,
         raced |-> FALSE]

Threads == {1, 2}

TypeOK ==
    /\ obj \in [Objs -> [live : BOOLEAN, kind : Kinds \cup {"none"}, h : {NULL} \cup Handles]]
    /\ engine \in [Pointers -> [kind : Kinds \cup {"none"},
                                parent : {NULL} \cup Pointers, init : BOOLEAN]]
    /\ wrapper_id_set \in BOOLEAN
    /\ misuse = {}

Init ==
    /\ obj = [i \in Objs |-> Dead]
    /\ engine = [x \in Pointers |-> Free]
    /\ misuse = {}
    /\ wrapper_id_set = FALSE
    /\ lastOp = Op("none", "none", 0, 0, <<>>, "void")
    /\ thr = [t \in Threads |-> Idle]
    /\ inflight = [x \in {NULL} \cup Pointers |-> 0]
    /\ config = DefaultConfig
    /\ param = <<>>

\* ------------------------------------------------------- object life cycle

\* ~Model(), ~Processor(), ~ProcessorContext(), ~VadContext() of the object in i.
Destructor(i) ==
    /\ obj[i].live
    /\ LET calls == DtorCalls(obj[i].kind, obj[i].h) IN
       /\ engine' = EngineAfter(engine, calls)
       /\ misuse' = misuse \cup MisuseIn(engine, calls)
       /\ lastOp' = Op("dtor", obj[i].kind, i, 0, calls, "void")
    /\ obj' = [obj EXCEPT ![i] = Dead]
    /\ UNCHANGED <<wrapper_id_set, thr, inflight, config, param>>

\* T(T&& other): a new object is constructed in j from the object in i.
MoveConstructor(i, j) ==
    /\ obj[i].live
    /\ FreeObjs # {}
    /\ j = NewObj
    /\ obj' = [obj EXCEPT ![j] = Wrapper(obj[i].kind, obj[i].h),
                          ![i].h = MovedFrom(obj[i].h)]
    /\ lastOp' = Op("move_ctor", obj[i].kind, j, i, <<>>, "void")
    /\ UNCHANGED <<engine, misuse, wrapper_id_set, thr, inflight, config, param>>

\* T& operator=(T&& other): the object in j is assigned from the object in i.
MoveAssignment(i, j) ==
    /\ obj[i].live
    /\ obj[j].live
    /\ obj[i].kind = obj[j].kind
    /\ IF i # j
       THEN LET calls == MoveAssignCalls(obj[j].kind, obj[j].h) IN
            /\ engine' = EngineAfter(engine, calls)
            /\ misuse' = misuse \cup MisuseIn(engine, calls)
            /\ obj' = [obj EXCEPT ![j].h = obj[i].h, ![i].h = MovedFrom(obj[i].h)]
            /\ lastOp' = Op("move_assign", obj[i].kind, j, i, calls, "void")
       ELSE /\ UNCHANGED <<engine, misuse, obj>>
            /\ lastOp' = Op("move_assign", obj[i].kind, j, i, <<>>, "void")
    /\ UNCHANGED <<wrapper_id_set, thr, inflight, config, param>>

\* -------------------------------------------------------- create functions

\* A create function that wraps whatever the engine left in the out-pointer.
CreateValueAlways(rc, raw) == raw

\* The handle the temporary wrapper is constructed with: T(raw) when the
\* engine returned success, T() otherwise.
CreateValue(rc, raw) == IF rc = Success THEN raw ELSE NULL

\* A create function that stores ErrorCode::Success on both branches.
CreateErrorSuccess(rc) == Success

\* The error stored in the Result: ErrorCode::Success on the success branch,
\* the converted status otherwise.
CreateError(rc) ==
    IF rc = Success THEN Success ELSE static_cast_ErrorCode(rc)

\* The body shared by the five create functions.  raw starts as nullptr and is
\* what the engine function fn leaves in it; the temporary wrapper is moved
\* into Result::value (constructed in i) and then destroyed.  pre are the
\* engine calls made before fn, argh the handle passed to fn.
Create(op, fn, kind, i, other, argh, pre) ==
    /\ FreeObjs # {}
    /\ i = NewObj
    /\ \E rc \in CreateStatus(kind # "Model", argh) :
       \E raw \in EngineOut(rc) :
         LET tmp   == CreateValue(rc, raw)
             calls == pre \o <<EngineCall(fn, argh, <<kind>>, rc, raw)>>
                          \o DtorCalls(kind, MovedFrom(tmp))
         IN  /\ obj' = [obj EXCEPT ![i] = Wrapper(kind, tmp)]
             /\ engine' = EngineAfter(engine, calls)
             /\ misuse' = misuse \cup MisuseIn(engine, calls)
             /\ lastOp' = Op(op, kind, i, other, calls, CreateError(rc))
    /\ UNCHANGED <<thr, inflight, config, param>>

\* Model::create_from_file(file_path)
ModelCreateFromFile(i) ==
    /\ Create("create_from_file", "aic_model_create_from_file", "Model", i, 0, NULL, <<>>)
    /\ UNCHANGED wrapper_id_set

\* Model::create_from_buffer(buffer, buffer_len)
ModelCreateFromBuffer(i) ==
    /\ Create("create_from_buffer", "aic_model_create_from_buffer", "Model", i, 0, NULL, <<>>)
    /\ UNCHANGED wrapper_id_set

\* The engine calls made by the initializer of the function-local static
\* wrapper_id_set, which runs the first time Processor::create is entered.
WrapperIdCalls(isSet) ==
    IF isSet THEN <<>>
    ELSE <<EngineCall("aic_set_sdk_wrapper_id", NULL, <<1>>, "void", NULL)>>

\* A Processor::create that takes the model over and releases its handle.
ProcessorCreateConsuming(i, m) ==
    /\ obj[m].live
    /\ obj[m].kind = "Model"
    /\ Create("create", "aic_processor_create", "Processor", i, m, obj[m].h,
              WrapperIdCalls(wrapper_id_set) \o DtorCalls("Model", obj[m].h))
    /\ wrapper_id_set' = TRUE

\* Processor::create(model, license_key), model being the object in m.
ProcessorCreate(i, m) ==
    /\ obj[m].live
    /\ obj[m].kind = "Model"
    /\ Create("create", "aic_processor_create", "Processor", i, m, obj[m].h,
              WrapperIdCalls(wrapper_id_set))
    /\ wrapper_id_set' = TRUE

\* Processor::create_context() on the object in q.
ProcessorCreateContext(i, q) ==
    /\ obj[q].live
    /\ obj[q].kind = "Processor"
    /\ Create("create_context", "aic_processor_context_create", "ProcessorContext",
              i, q, obj[q].h, <<>>)
    /\ UNCHANGED wrapper_id_set

\* Processor::create_vad_context() on the object in q.
ProcessorCreateVadContext(i, q) ==
    /\ obj[q].live
    /\ obj[q].kind = "Processor"
    /\ Create("create_vad_context", "aic_vad_context_create", "VadContext",
              i, q, obj[q].h, <<>>)
    /\ UNCHANGED wrapper_id_set

\* ------------------------------------------------------------ audio buffers

ChannelCounts == {2}

FrameCounts == {2}

\* The sample of channel c at frame f of the caller's signal.
Sample(c, f) == 10 * c + f

\* audio[c] -> [ch c f0, ch c f1, ...]: one buffer per channel.
Planar(nc, nf) == [c \in 1..nc |-> [f \in 1..nf |-> Sample(c, f)]]

\* [ch0_f0, ch1_f0, ch0_f1, ch1_f1, ...]
Interleaved(nc, nf) ==
    [k \in 1..(nc * nf) |-> Sample(((k - 1) % nc) + 1, ((k - 1) \div nc) + 1)]

\* [ch0_f0, ch0_f1, ..., ch1_f0, ch1_f1, ...]
Sequential(nc, nf) ==
    [k \in 1..(nc * nf) |-> Sample(((k - 1) \div nf) + 1, ((k - 1) % nf) + 1)]

ProcessOps == {"process_planar", "process_interleaved", "process_sequential"}

\* The buffer a caller hands to each processing function for the same signal.
Buffer(op, nc, nf) ==
    CASE op = "process_planar"      -> Planar(nc, nf)
      [] op = "process_interleaved" -> Interleaved(nc, nf)
      [] op = "process_sequential"  -> Sequential(nc, nf)

\* ------------------------------------------------- Processor member functions

\* Three adapters over one engine function.
ProcessorFnSingle(op) ==
    IF op = "initialize" THEN "aic_processor_initialize"
    ELSE "aic_processor_process_interleaved"

\* The engine function each Processor member function forwards to.
ProcessorFn(op) ==
    CASE op = "initialize"          -> "aic_processor_initialize"
      [] op = "process_planar"      -> "aic_processor_process_planar"
      [] op = "process_interleaved" -> "aic_processor_process_interleaved"
      [] op = "process_sequential"  -> "aic_processor_process_sequential"

\* A processing function that checks for initialization itself and does not
\* call the engine before it.
ProcessorCallsChecked(op, h, arg, rc) ==
    IF op # "initialize" /\ ~(h \in Handles /\ engine[h].init)
    THEN <<>>
    ELSE <<EngineCall(ProcessorFn(op), h, arg, rc, NULL)>>

\* The engine calls a Processor member function makes when the engine answers
\* rc: one call of its engine function with processor_ and the arguments as
\* given.
ProcessorCalls(op, h, arg, rc) ==
    <<EngineCall(ProcessorFn(op), h, arg, rc, NULL)>>

\* The arguments of initialize: sample_rate, num_channels, num_frames,
\* allow_variable_frames.
InitArgs ==
    {<<48000, nc, nf, FALSE>> : nc \in ChannelCounts, nf \in FrameCounts}

\* The arguments of a processing function: audio, num_channels, num_frames.
ProcessArgs(op) ==
    {<<Buffer(op, nc, nf), nc, nf>> : nc \in ChannelCounts, nf \in FrameCounts}

\* Whether the engine holds h as an initialized processor.
IsInit(h) == h \in Handles /\ engine[h].init

\* Processor::initialize(sample_rate, num_channels, num_frames, allow_variable_frames)
Initialize(i) ==
    /\ obj[i].live
    /\ obj[i].kind = "Processor"
    /\ \E arg \in InitArgs, rc \in EngineStatus(TRUE, obj[i].h, FALSE, FALSE) :
         LET calls == ProcessorCalls("initialize", obj[i].h, arg, rc) IN
         /\ lastOp' = Op("initialize", "Processor", i, 0, calls,
                         static_cast_ErrorCode(rc))
         /\ engine' = EngineAfter(engine, calls)
    /\ UNCHANGED <<obj, misuse, wrapper_id_set, thr, inflight, config, param>>

\* Processor::process_planar / process_interleaved / process_sequential
\* (audio, num_channels, num_frames)
Process(op, i) ==
    /\ obj[i].live
    /\ obj[i].kind = "Processor"
    /\ \E arg \in ProcessArgs(op),
          rc \in EngineStatus(TRUE, obj[i].h, TRUE, IsInit(obj[i].h)) :
         lastOp' = Op(op, "Processor", i, 0,
                      ProcessorCalls(op, obj[i].h, arg, rc),
                      static_cast_ErrorCode(rc))
    /\ UNCHANGED <<obj, engine, misuse, wrapper_id_set, thr, inflight, config, param>>

\* --------------------------------------------------- context member functions

ProcessorParameter == {"Bypass", "EnhancementLevel", "VoiceGain"}

VadParameter == {"SpeechHoldDuration", "Sensitivity", "MinimumSpeechDuration"}

ParameterValues == {1}

\* The parameters of each context class.
Parameters(kind) ==
    IF kind = "ProcessorContext" THEN ProcessorParameter ELSE VadParameter

\* Enumerators of which two are defined as each other's engine constant.
AicParameterSwapped(parameter) ==
    CASE parameter = "Bypass"                -> "AIC_PROCESSOR_PARAMETER_BYPASS"
      [] parameter = "EnhancementLevel"      -> "AIC_PROCESSOR_PARAMETER_VOICE_GAIN"
      [] parameter = "VoiceGain"             -> "AIC_PROCESSOR_PARAMETER_ENHANCEMENT_LEVEL"
      [] parameter = "SpeechHoldDuration"    -> "AIC_VAD_PARAMETER_SPEECH_HOLD_DURATION"
      [] parameter = "Sensitivity"           -> "AIC_VAD_PARAMETER_SENSITIVITY"
      [] parameter = "MinimumSpeechDuration" -> "AIC_VAD_PARAMETER_MINIMUM_SPEECH_DURATION"

\* The engine constant each enumerator of ProcessorParameter and VadParameter is
\* defined as.  static_cast<::AicProcessorParameter>(static_cast<int>(parameter))
\* takes the enumerator's integer, which is that constant's, as the engine's
\* parameter; the integer is not changed on the way.
AicParameter(parameter) ==
    CASE parameter = "Bypass"                -> "AIC_PROCESSOR_PARAMETER_BYPASS"
      [] parameter = "EnhancementLevel"      -> "AIC_PROCESSOR_PARAMETER_ENHANCEMENT_LEVEL"
      [] parameter = "VoiceGain"             -> "AIC_PROCESSOR_PARAMETER_VOICE_GAIN"
      [] parameter = "SpeechHoldDuration"    -> "AIC_VAD_PARAMETER_SPEECH_HOLD_DURATION"
      [] parameter = "Sensitivity"           -> "AIC_VAD_PARAMETER_SENSITIVITY"
      [] parameter = "MinimumSpeechDuration" -> "AIC_VAD_PARAMETER_MINIMUM_SPEECH_DURATION"

\* The engine's parameters.
AicParameters == {AicParameter(q) : q \in ProcessorParameter \cup VadParameter}

\* The engine's parameter values after the calls of one wrapper operation: a
\* set_parameter call that returned success has updated the parameter it
\* named; nothing else changes a parameter.
EngineParamAfter(par, calls) ==
    IF /\ calls # <<>>
       /\ calls[1].fn \in {"aic_processor_context_set_parameter",
                           "aic_vad_context_set_parameter"}
       /\ calls[1].rc = Success
       /\ calls[1].arg[1] \in DOMAIN par
    THEN [par EXCEPT ![calls[1].arg[1]] = calls[1].arg[2]]
    ELSE par

\* The values the engine can write for parameter id in a get_parameter call:
\* its current value.
EngineParamValues(par, id) ==
    IF id \in DOMAIN par THEN {par[id]} ELSE ParameterValues

\* The status values an engine getter can return, as the getters are
\* documented: success, or AIC_ERROR_CODE_NULL_POINTER when the handle is NULL
\* (the pointer for the value is the address of a local, never NULL).
EngineGetStatus(h) ==
    IF h = NULL THEN {"AIC_ERROR_CODE_NULL_POINTER"} ELSE {Success}

\* The body shared by the getters:
\*     T value = init; rc = aic_*(h, arg..., &value);
\*     assert(rc == AIC_ERROR_CODE_SUCCESS); return value;
\* Each outcome is the engine call made, the value returned and whether the
\* assertion ended the program.  On success the engine has written one of
\* values; otherwise it has written nothing, and the assertion fails in a build
\* that keeps assertions and is no code in a build with NDEBUG.
Getter(fn, h, arg, init, values) ==
    {[call |-> EngineCall(fn, h, arg, rc, <<v>>), value |-> v, abort |-> FALSE] :
        rc \in EngineGetStatus(h) \cap {Success}, v \in values}
    \cup
    {[call |-> EngineCall(fn, h, arg, rc, <<>>), value |-> init, abort |-> a] :
        rc \in EngineGetStatus(h) \ {Success}, a \in BOOLEAN}

\* assert() has called abort(): the program has ended.
Aborted == \E t \in Threads : thr[t].pc = "abort"

\* The caller's thread after a getter returned or aborted.
AfterGetter(o) == [Idle EXCEPT !.pc = IF o.abort THEN "abort" ELSE "idle"]

\* ProcessorContext::reset()
Reset(i) ==
    /\ obj[i].live
    /\ obj[i].kind = "ProcessorContext"
    /\ \E rc \in EngineStatus(TRUE, obj[i].h, FALSE, FALSE) :
         lastOp' = Op("reset", "ProcessorContext", i, 0,
                      <<EngineCall("aic_processor_context_reset", obj[i].h, <<>>, rc, NULL)>>,
                      static_cast_ErrorCode(rc))
    /\ UNCHANGED <<obj, engine, misuse, wrapper_id_set, thr, inflight, config, param>>

\* The engine function set_parameter of each context class forwards to.
SetParameterFn(kind) ==
    IF kind = "ProcessorContext"
    THEN "aic_processor_context_set_parameter"
    ELSE "aic_vad_context_set_parameter"

\* The engine function get_parameter of each context class forwards to.
GetParameterFn(kind) ==
    IF kind = "ProcessorContext"
    THEN "aic_processor_context_get_parameter"
    ELSE "aic_vad_context_get_parameter"

\* The engine calls of set_parameter(parameter, value) when the engine answers rc.
SetParameterCalls(kind, h, parameter, value, rc) ==
    <<EngineCall(SetParameterFn(kind), h, <<AicParameter(parameter), value>>, rc, NULL)>>

\* ProcessorContext::set_parameter / VadContext::set_parameter(parameter, value)
SetParameter(i) ==
    /\ obj[i].live
    /\ obj[i].kind \in {"ProcessorContext", "VadContext"}
    /\ \E p \in Parameters(obj[i].kind), v \in ParameterValues,
          rc \in EngineStatus(TRUE, obj[i].h, FALSE, FALSE) :
         LET calls == SetParameterCalls(obj[i].kind, obj[i].h, p, v, rc) IN
         /\ lastOp' = OpArgs("set_parameter", obj[i].kind, i, <<p, v>>, calls,
                             static_cast_ErrorCode(rc))
         /\ param' = EngineParamAfter(param, calls)
    /\ UNCHANGED <<obj, engine, misuse, wrapper_id_set, thr, inflight, config>>

\* ProcessorContext::get_parameter / VadContext::get_parameter(parameter)
GetParameter(i) ==
    /\ obj[i].live
    /\ obj[i].kind \in {"ProcessorContext", "VadContext"}
    /\ \E p \in Parameters(obj[i].kind) :
       \E o \in Getter(GetParameterFn(obj[i].kind), obj[i].h, <<AicParameter(p)>>, 0,
                        EngineParamValues(param, AicParameter(p))) :
         /\ lastOp' = OpArgs("get_parameter", obj[i].kind, i, <<p>>, <<o.call>>, o.value)
         /\ thr' = [thr EXCEPT ![1] = AfterGetter(o)]
    /\ UNCHANGED <<obj, engine, misuse, wrapper_id_set, inflight, config, param>>

\* ------------------------------------------------------------ specification

Next ==
    \/ \E i \in Objs : Destructor(i)
    \/ \E i, j \in Objs : MoveConstructor(i, j)
    \/ \E i, j \in Objs : MoveAssignment(i, j)
    \/ \E i \in Objs : ModelCreateFromFile(i)
    \/ \E i \in Objs : ModelCreateFromBuffer(i)
    \/ \E i, m \in Objs : ProcessorCreate(i, m)
    \/ \E i, q \in Objs : ProcessorCreateContext(i, q)
    \/ \E i, q \in Objs : ProcessorCreateVadContext(i, q)
    \/ \E i \in Objs : Initialize(i)
    \/ \E op \in ProcessOps, i \in Objs : Process(op, i)
    \/ \E i \in Objs : Reset(i)
    \/ \E i \in Objs : SetParameter(i)

Spec == Init /\ [][Next]_vars

\* ------------------------------------------- two threads on Processor objects

\* Two Processor objects, each owning a handle, whose Model has been destroyed;
\* each may or may not have been initialized.  No thread is in a call.
InitMT ==
    /\ obj = [i \in Objs |-> IF i <= 2 THEN Wrapper("Processor", i) ELSE Dead]
    /\ engine \in {e \in [Pointers -> {Free} \cup
                                [kind : {"Processor"}, parent : {Junk}, init : BOOLEAN]] :
                      \A x \in Pointers : (e[x] # Free) <=> (x <= 2)}
    /\ misuse = {}
    /\ wrapper_id_set = TRUE
    /\ lastOp = Op("none", "none", 0, 0, <<>>, "void")
    /\ thr = [t \in Threads |-> Idle]
    /\ inflight = [x \in {NULL} \cup Pointers |-> 0]
    /\ config = DefaultConfig
    /\ param = <<>>

\* The arguments a member function op can be called with.
MemberArgs(op) == IF op = "initialize" THEN InitArgs ELSE ProcessArgs(op)

\* The handle a Processor member function called on the object in i passes to
\* the engine: the object's processor_ field.
ForwardedHandle(i) == obj[i].h

\* Thread t enters initialize or a processing function of the object in i.
\* Nothing in the member function waits for another thread.
Call(t, op, i) ==
    /\ thr[t].pc = "idle"
    /\ obj[i].live
    /\ obj[i].kind = "Processor"
    /\ \E arg \in MemberArgs(op) :
         thr' = [thr EXCEPT ![t] = [pc |-> "called", op |-> op, self |-> i,
                                    arg |-> arg, h |-> NULL, raced |-> FALSE]]
    /\ UNCHANGED <<obj, engine, misuse, wrapper_id_set, lastOp, inflight, config, param>>

\* A member function that waits until no other call is in progress on the handle.
ForwardSerialized(t) ==
    /\ thr[t].pc = "called"
    /\ inflight[obj[thr[t].self].h] = 0
    /\ inflight' = [inflight EXCEPT ![obj[thr[t].self].h] = @ + 1]
    /\ thr' = [thr EXCEPT ![t].pc = "engine", ![t].h = obj[thr[t].self].h]
    /\ UNCHANGED <<obj, engine, misuse, wrapper_id_set, lastOp, config, param>>

\* Thread t makes the member function's engine call: the call is now in
\* progress on the handle.  Calls in progress on one handle at the same time
\* race inside the engine.
Forward(t) ==
    /\ thr[t].pc = "called"
    /\ LET h == ForwardedHandle(thr[t].self) IN
       /\ inflight' = [inflight EXCEPT ![h] = @ + 1]
       /\ thr' = [u \in Threads |->
                    IF u = t
                    THEN [thr[t] EXCEPT !.pc = "engine", !.h = h,
                                        !.raced = inflight[h] > 0]
                    ELSE IF thr[u].pc = "engine" /\ thr[u].h = h
                    THEN [thr[u] EXCEPT !.raced = TRUE]
                    ELSE thr[u]]
    /\ UNCHANGED <<obj, engine, misuse, wrapper_id_set, lastOp, config, param>>

\* The engine call of thread t returns and the member function returns the
\* converted status.  A call that raced with another one on the same handle
\* has no defined outcome: any status.
Return(t) ==
    /\ thr[t].pc = "engine"
    /\ \E rc \in (IF thr[t].raced THEN AicErrorCode
                   ELSE EngineStatus(TRUE, thr[t].h, thr[t].op \in ProcessOps,
                                     IsInit(thr[t].h))) :
         LET calls == ProcessorCalls(thr[t].op, thr[t].h, thr[t].arg, rc) IN
         /\ engine' = EngineAfter(engine, calls)
         /\ lastOp' = Op(thr[t].op, "Processor", thr[t].self, 0, calls,
                         static_cast_ErrorCode(rc))
    /\ inflight' = [inflight EXCEPT ![thr[t].h] = @ - 1]
    /\ thr' = [thr EXCEPT ![t] = Idle]
    /\ UNCHANGED <<obj, misuse, wrapper_id_set, config, param>>

NextMT ==
    \/ \E t \in Threads, op \in ProcessOps \cup {"initialize"}, i \in Objs : Call(t, op, i)
    \/ \E t \in Threads : Forward(t)
    \/ \E t \in Threads : Return(t)

SpecMT == InitMT /\ [][NextMT]_vars

\* ------------------------------------ control functions called from any thread

\* The member functions documented as thread-safe, by class.
ControlOps(kind) ==
    CASE kind = "ProcessorContext" ->
            {"reset", "set_parameter", "get_parameter", "get_output_delay"}
      [] kind = "VadContext" ->
            {"is_speech_detected", "set_parameter", "get_parameter"}
      [] kind = "Processor" -> {"create_context", "create_vad_context"}
      [] OTHER -> {}

\* The parameter of each context class that the threads set and get (one that
\* example/main.cpp sets).
ControlParameters(kind) ==
    Parameters(kind) \cap {"EnhancementLevel", "Sensitivity"}

\* The arguments a control function can be called with.
ControlArgs(kind, op) ==
    CASE op = "set_parameter" ->
            {<<p, v>> : p \in ControlParameters(kind), v \in ParameterValues}
      [] op = "get_parameter" -> {<<p>> : p \in ControlParameters(kind)}
      [] OTHER -> {<<>>}

\* The engine function of the two context-creating member functions and the
\* class of the object they return.
ContextCreateFn(op) ==
    IF op = "create_context" THEN "aic_processor_context_create"
    ELSE "aic_vad_context_create"

ContextCreateKind(op) ==
    IF op = "create_context" THEN "ProcessorContext" ELSE "VadContext"

\* The delays the engine can report, in samples.
OutputDelays == {480}

\* The outcomes of the getter op of class kind, called with arg on handle h.
ControlGetter(kind, op, h, arg) ==
    CASE op = "get_parameter" ->
            Getter(GetParameterFn(kind), h, <<AicParameter(arg[1])>>, 0,
                   EngineParamValues(param, AicParameter(arg[1])))
      [] op = "get_output_delay" ->
            Getter("aic_processor_context_get_output_delay", h, <<>>, 0, OutputDelays)
      [] op = "is_speech_detected" ->
            Getter("aic_vad_context_is_speech_detected", h, <<>>, FALSE, BOOLEAN)

\* The threads that are inside create_context or create_vad_context.
Creating == {t \in Threads : thr[t].pc \in {"ctl_called", "ctl_engine"}
                               /\ thr[t].op \in ControlOps("Processor")}

\* A Processor that has been initialized in the first location and, in each
\* other location, nothing or a context created from it, holding a handle.  No
\* thread is in a call.
InitCtl ==
    /\ \E k \in [Objs -> Kinds \cup {"none"}] :
         /\ k[1] = "Processor"
         /\ \A i \in Objs \ {1} : k[i] \in {"none"} \cup {"ProcessorContext", "VadContext"}
         /\ \A i \in Objs : k[i] # "none" => i \in Handles
         /\ obj = [i \in Objs |-> IF k[i] = "none" THEN Dead ELSE Wrapper(k[i], i)]
         /\ engine = [x \in Pointers |->
                         IF x \in Objs /\ k[x] # "none"
                         THEN [kind |-> k[x],
                               parent |-> IF x # 1 THEN 1 ELSE Junk,
                               init |-> k[x] = "Processor"]
                         ELSE Free]
    /\ misuse = {}
    /\ wrapper_id_set = TRUE
    /\ lastOp = Op("none", "none", 0, 0, <<>>, "void")
    /\ thr = [t \in Threads |-> Idle]
    /\ inflight = [x \in {NULL} \cup Pointers |-> 0]
    /\ config = DefaultConfig
    /\ param = <<>>

\* Thread t enters the control function op of the object in i.  Nothing in a
\* control function waits for another thread.  (A context-creating function is
\* entered only while there is a location left for the object it returns.)
ControlCall(t, op, i) ==
    /\ ~Aborted
    /\ thr[t].pc = "idle"
    /\ obj[i].live
    /\ op \in ControlOps(obj[i].kind)
    /\ op \in ControlOps("Processor") => Cardinality(Creating) < Cardinality(FreeObjs)
    /\ \E arg \in ControlArgs(obj[i].kind, op) :
         thr' = [thr EXCEPT ![t] = [pc |-> "ctl_called", op |-> op, self |-> i,
                                    arg |-> arg, h |-> NULL, raced |-> FALSE]]
    /\ UNCHANGED <<obj, engine, misuse, wrapper_id_set, lastOp, inflight, config, param>>

\* A control function that takes the handle out of the object while the engine
\* call is in progress.
ControlForwardTaking(t) ==
    /\ ~Aborted
    /\ thr[t].pc = "ctl_called"
    /\ thr' = [thr EXCEPT ![t].pc = "ctl_engine", ![t].h = ForwardedHandle(thr[t].self)]
    /\ obj' = [obj EXCEPT ![thr[t].self].h = NULL]
    /\ UNCHANGED <<engine, misuse, wrapper_id_set, lastOp, inflight, config, param>>

\* Thread t makes the control function's engine call, with the handle read from
\* the object's field.
ControlForward(t) ==
    /\ ~Aborted
    /\ thr[t].pc = "ctl_called"
    /\ thr' = [thr EXCEPT ![t].pc = "ctl_engine", ![t].h = ForwardedHandle(thr[t].self)]
    /\ UNCHANGED <<obj, engine, misuse, wrapper_id_set, lastOp, inflight, config, param>>

\* The engine call of thread t returns and the control function returns: the
\* converted status (reset, set_parameter), the value (the getters), or the
\* Result with the new context (the context-creating functions, as in Create).
ControlReturn(t) ==
    /\ ~Aborted
    /\ thr[t].pc = "ctl_engine"
    /\ LET op   == thr[t].op
           i    == thr[t].self
           kind == obj[i].kind
           h    == thr[t].h
           arg  == thr[t].arg
       IN
       CASE op = "reset" ->
              /\ \E rc \in EngineStatus(TRUE, h, FALSE, FALSE) :
                   lastOp' = OpArgs(op, kind, i, arg,
                                    <<EngineCall("aic_processor_context_reset", h, <<>>, rc, NULL)>>,
                                    static_cast_ErrorCode(rc))
              /\ thr' = [thr EXCEPT ![t] = Idle]
              /\ UNCHANGED <<obj, engine, misuse, param>>
         [] op = "set_parameter" ->
              /\ \E rc \in EngineStatus(TRUE, h, FALSE, FALSE) :
                   LET calls == SetParameterCalls(kind, h, arg[1], arg[2], rc) IN
                   /\ lastOp' = OpArgs(op, kind, i, arg, calls, static_cast_ErrorCode(rc))
                   /\ param' = EngineParamAfter(param, calls)
              /\ thr' = [thr EXCEPT ![t] = Idle]
              /\ UNCHANGED <<obj, engine, misuse>>
         [] op \in {"get_parameter", "get_output_delay", "is_speech_detected"} ->
              /\ \E o \in ControlGetter(kind, op, h, arg) :
                   /\ lastOp' = OpArgs(op, kind, i, arg, <<o.call>>, o.value)
                   /\ thr' = [thr EXCEPT ![t] = AfterGetter(o)]
              /\ UNCHANGED <<obj, engine, misuse, param>>
         [] op \in {"create_context", "create_vad_context"} ->
              /\ \E rc \in CreateStatus(TRUE, h) :
                 \E raw \in EngineOut(rc) :
                   LET new   == ContextCreateKind(op)
                       tmp   == CreateValue(rc, raw)
                       calls == <<EngineCall(ContextCreateFn(op), h, <<new>>, rc, raw)>>
                                    \o DtorCalls(new, MovedFrom(tmp))
                   IN  /\ obj' = [obj EXCEPT ![NewObj] = Wrapper(new, tmp)]
                       /\ engine' = EngineAfter(engine, calls)
                       /\ misuse' = misuse \cup MisuseIn(engine, calls)
                       /\ lastOp' = Op(op, new, NewObj, i, calls, CreateError(rc))
              /\ thr' = [thr EXCEPT ![t] = Idle]
              /\ UNCHANGED param
    /\ UNCHANGED <<wrapper_id_set, inflight, config>>

\* The thread on which the Processor's audio is processed.
AudioThread == CHOOSE t \in Threads : \A u \in Threads : t <= u

\* The processing function the audio thread runs (the one of example/main.cpp).
AudioOps == {"process_interleaved"}

NextCtl ==
    \/ \E op \in AudioOps, i \in Objs : ~Aborted /\ Call(AudioThread, op, i)
    \/ ~Aborted /\ thr[AudioThread].op \in ProcessOps /\ Forward(AudioThread)
    \/ ~Aborted /\ thr[AudioThread].op \in ProcessOps /\ Return(AudioThread)
    \/ \E t \in Threads, i \in Objs : \E op \in ControlOps(obj[i].kind) : ControlCall(t, op, i)
    \/ \E t \in Threads : ControlForward(t)
    \/ \E t \in Threads : ControlReturn(t)

SpecCtl == InitCtl /\ [][NextCtl]_vars

\* ------------------------------------------------------------ ProcessorConfig

\* The sample rates a model can be optimized for, in Hz.
SampleRates == {16000, 48000}

\* The frame count the engine reports as optimal for a sample rate: the frames
\* of the model's processing window, 480 at 48 kHz and 160 at 16 kHz for a
\* window of 10 ms.
OptimalNumFrames(sample_rate) == sample_rate \div 100

\* Model::get_optimal_sample_rate() on a Model holding h.
get_optimal_sample_rate(h) ==
    Getter("aic_model_get_optimal_sample_rate", h, <<>>, 0, SampleRates)

\* Model::get_optimal_num_frames(sample_rate) on a Model holding h.
get_optimal_num_frames(h, sample_rate) ==
    Getter("aic_model_get_optimal_num_frames", h, <<sample_rate>>, 0,
           {OptimalNumFrames(sample_rate)})

\* The outcome of ProcessorConfig::optimal once both getters have run.
OptimalOutcome(r, f) ==
    [calls |-> <<r.call, f.call>>,
     config |-> ProcessorConfig(r.value, 1, f.value, FALSE),
     abort |-> f.abort]

\* An optimal() that asks for the frame count at 48 kHz whatever the model's rate.
optimal_FixedRate(h) ==
    UNION {IF r.abort
           THEN {[calls |-> <<r.call>>, config |-> DefaultConfig, abort |-> TRUE]}
           ELSE {OptimalOutcome(r, f) : f \in get_optimal_num_frames(h, 48000)}
             : r \in get_optimal_sample_rate(h)}

\* ProcessorConfig::optimal(model), model holding h: the engine calls made, the
\* config returned and whether an assertion ended the program.
\*     config.sample_rate = model.get_optimal_sample_rate();
\*     config.num_frames  = model.get_optimal_num_frames(config.sample_rate);
\*     config.num_channels = 1; config.allow_variable_frames = false;
optimal(h) ==
    UNION {IF r.abort
           THEN {[calls |-> <<r.call>>, config |-> DefaultConfig, abort |-> TRUE]}
           ELSE {OptimalOutcome(r, f) : f \in get_optimal_num_frames(h, r.value)}
             : r \in get_optimal_sample_rate(h)}

\* A with_num_channels that starts from a default-constructed config.
with_num_channels_Fresh(cfg, channels) ==
    [DefaultConfig EXCEPT !.num_channels = channels]

\* ProcessorConfig::with_num_channels(channels) const on cfg:
\*     copy = *this; copy.num_channels = channels; return copy;
with_num_channels(cfg, channels) == [cfg EXCEPT !.num_channels = channels]

\* ProcessorConfig::with_allow_variable_frames(allow) const on cfg:
\*     copy = *this; copy.allow_variable_frames = allow; return copy;
with_allow_variable_frames(cfg, allow) ==
    [cfg EXCEPT !.allow_variable_frames = allow]

\* The channel counts (uint16_t) a caller asks for.
ConfigChannels == {1, 2}

\* The configs a caller can hold: constructed directly, field by field.
ConfigInputs ==
    {ProcessorConfig(sr, nc, nf, avf) :
        sr \in {0} \cup SampleRates, nc \in ConfigChannels,
        nf \in {0} \cup {OptimalNumFrames(r) : r \in SampleRates}, avf \in BOOLEAN}

ConfigOps == {"optimal", "with_num_channels", "with_allow_variable_frames"}

\* A Model in the first location, holding a handle or none (the Model of a
\* Result whose create failed), and a config the caller constructed.
InitConfig ==
    /\ \E h \in {NULL, 1} :
         /\ obj = [i \in Objs |-> IF i = 1 THEN Wrapper("Model", h) ELSE Dead]
         /\ engine = [x \in Pointers |->
                         IF x = h THEN [kind |-> "Model", parent |-> NULL, init |-> FALSE]
                         ELSE Free]
    /\ misuse = {}
    /\ wrapper_id_set = FALSE
    /\ lastOp = Op("none", "none", 0, 0, <<>>, "void")
    /\ thr = [t \in Threads |-> Idle]
    /\ inflight = [x \in {NULL} \cup Pointers |-> 0]
    /\ config \in ConfigInputs
    /\ param = <<>>

\* ProcessorConfig::optimal(model), model being the object in m.
Optimal(m) ==
    /\ ~Aborted
    /\ obj[m].live
    /\ obj[m].kind = "Model"
    /\ \E o \in optimal(obj[m].h) :
         /\ lastOp' = Op("optimal", "ProcessorConfig", 0, m, o.calls,
                         IF o.abort THEN "abort" ELSE o.config)
         /\ thr' = [thr EXCEPT ![1] = AfterGetter(o)]
    /\ UNCHANGED <<obj, engine, misuse, wrapper_id_set, inflight, config, param>>

\* config.with_num_channels(channels)
WithNumChannels ==
    /\ ~Aborted
    /\ \E channels \in ConfigChannels :
         lastOp' = OpArgs("with_num_channels", "ProcessorConfig", 0, <<channels>>, <<>>,
                          with_num_channels(config, channels))
    /\ UNCHANGED <<obj, engine, misuse, wrapper_id_set, thr, inflight, config, param>>

\* config.with_allow_variable_frames(allow)
WithAllowVariableFrames ==
    /\ ~Aborted
    /\ \E allow \in BOOLEAN :
         lastOp' = OpArgs("with_allow_variable_frames", "ProcessorConfig", 0, <<allow>>, <<>>,
                          with_allow_variable_frames(config, allow))
    /\ UNCHANGED <<obj, engine, misuse, wrapper_id_set, thr, inflight, config, param>>

\* config = <the config just returned>: the caller keeps the result (the
\* implicit copy of the struct), as in
\*     auto config = ProcessorConfig::optimal(model).with_num_channels(1);
CopyConfig ==
    /\ ~Aborted
    /\ lastOp.op \in ConfigOps
    /\ config' = lastOp.ret
    /\ UNCHANGED <<obj, engine, misuse, wrapper_id_set, lastOp, thr, inflight, param>>

NextConfig ==
    \/ \E m \in Objs : Optimal(m)
    \/ WithNumChannels
    \/ WithAllowVariableFrames
    \/ CopyConfig

SpecConfig == InitConfig /\ [][NextConfig]_vars

\* ------------------------------------------------------- parameter round trip

\* The values the engine's parameters can have before any is set.
InitialValues == {0, 2}

\* In each location a context of the one processor whose parameters are
\* followed, holding a handle or none (the context of a Result whose create
\* failed); every parameter of that processor has its initial value.
InitParam ==
    /\ \E k \in [Objs -> {"ProcessorContext", "VadContext"}], own \in [Objs -> BOOLEAN] :
         /\ \A i \in Objs : own[i] => i \in Handles
         /\ obj = [i \in Objs |-> Wrapper(k[i], IF own[i] THEN i ELSE NULL)]
         /\ engine = [x \in Pointers |->
                         IF x \in Objs /\ own[x]
                         THEN [kind |-> k[x], parent |-> Junk, init |-> FALSE]
                         ELSE Free]
    /\ misuse = {}
    /\ wrapper_id_set = TRUE
    /\ lastOp = Op("none", "none", 0, 0, <<>>, "void")
    /\ thr = [t \in Threads |-> Idle]
    /\ inflight = [x \in {NULL} \cup Pointers |-> 0]
    /\ config = DefaultConfig
    /\ \E v \in InitialValues : param = [id \in AicParameters |-> v]

NextParam ==
    \/ \E i \in Objs : ~Aborted /\ SetParameter(i)
    \/ \E i \in Objs : ~Aborted /\ GetParameter(i)

SpecParam == InitParam /\ [][NextParam]_vars

\* =================================================================== claims

CreateOps ==
    {"create_from_file", "create_from_buffer", "create", "create_context",
     "create_vad_context"}

\* The live wrapper objects that hold handle x.
Owners(x) == {i \in Objs : obj[i].live /\ obj[i].h = x}

AllDestroyed == \A i \in Objs : ~obj[i].live

\* C1: every handle a successful create returned is passed to the destroy
\* function of its own type exactly once by the time all wrapper objects are
\* destroyed, whatever moves, move assignments and destructions happened:
\* no destroy call is ever given a pointer that is not a live handle of the
\* function's type (so none is destroyed twice, or by another type's function),
\* and a handle that is still live is held by a live wrapper of its class (so
\* none is left over once all wrappers are destroyed).
C1_DestroyedExactlyOnce ==
    /\ misuse = {}
    /\ \A x \in LiveHandles(engine) :
         \E i \in Owners(x) : obj[i].kind = engine[x].kind
    /\ AllDestroyed => LiveHandles(engine) = {}

\* C1 witness: all wrappers are destroyed, the last of them by a destructor
\* that destroyed a processor context handle (so a model, a processor and a
\* context have been created, and destroyed).
C1_Witness ==
    /\ AllDestroyed
    /\ lastOp.op = "dtor"
    /\ lastOp.kind = "ProcessorContext"
    /\ Len(lastOp.calls) = 1

NoSharedHandle ==
    \A i, j \in Objs :
        (i # j /\ obj[i].live /\ obj[j].live /\ obj[i].h # NULL) => obj[i].h # obj[j].h

\* A step that is a move construction or a move assignment from one object to
\* another leaves the target with the source's handle and the source with NULL.
MoveTransfers ==
    (lastOp'.op \in {"move_ctor", "move_assign"} /\ lastOp'.self # lastOp'.other)
    => /\ obj'[lastOp'.self].h = obj[lastOp'.other].h
       /\ obj'[lastOp'.other].h = NULL

\* C2: unique ownership: no handle is held by two live wrapper objects at the
\* same time, and a move construction or move assignment from A to B leaves B
\* with A's former handle and A with none.
C2_UniqueOwnership == [](NoSharedHandle) /\ [][MoveTransfers]_vars

\* C2 witness: a move assignment between two objects has just destroyed the
\* target's own handle and handed it the source's.
C2_Witness ==
    /\ lastOp.op = "move_assign"
    /\ lastOp.self # lastOp.other
    /\ Len(lastOp.calls) = 1
    /\ obj[lastOp.self].h # NULL
    /\ obj[lastOp.other].h = NULL

\* C3 as stated: every live wrapper object holds exactly one engine handle,
\* the object in the Result of a create function and a moved-from object
\* included.
C3_Original_ExactlyOneHandle ==
    \A i \in Objs : obj[i].live => obj[i].h \in Handles

\* C3 amended: every live wrapper object holds at most one engine handle: its
\* handle field is either NULL or one handle that is live in the engine, of the
\* object's class, and held by no other object; it is NULL in the object of a
\* Result whose create failed and in an object that has just been moved from.
C3_AtMostOneHandle ==
    /\ \A i \in Objs :
         obj[i].live =>
            \/ obj[i].h = NULL
            \/ /\ obj[i].h \in LiveHandles(engine)
               /\ engine[obj[i].h].kind = obj[i].kind
               /\ Owners(obj[i].h) = {i}
    /\ (lastOp.op \in CreateOps /\ ~ok(lastOp.ret)) => obj[lastOp.self].h = NULL
    /\ (lastOp.op \in {"move_ctor", "move_assign"} /\ lastOp.self # lastOp.other)
         => obj[lastOp.other].h = NULL

\* C3 witness: an object has just been move-constructed from another one,
\* which is still live and now holds no handle, while the new one holds one.
C3_Witness ==
    /\ lastOp.op = "move_ctor"
    /\ obj[lastOp.other].live
    /\ obj[lastOp.other].h = NULL
    /\ obj[lastOp.self].h \in Handles

\* The engine calls among calls that return a status.
StatusCalls(calls) == SelectSeq(calls, LAMBDA c : c.rc # "void")

\* The destroy calls among calls.
DestroyCalls(calls) == SelectSeq(calls, LAMBDA c : c.fn \in DestroyFns)

\* C4 as stated: a processing function called on a Processor on which
\* initialize has not returned success is rejected by the wrapper and not
\* forwarded to the engine.
C4_Original_RejectedByWrapper ==
    (lastOp.op \in ProcessOps /\ ~IsInit(obj[lastOp.self].h))
    => lastOp.calls = <<>>

\* C4 amended: the wrapper keeps no record of initialization and does not
\* enforce the ordering itself: a processing function called before initialize
\* has returned success is forwarded like any other call, as exactly one call
\* of its engine function with the Processor's handle, and the wrapper returns
\* the status the engine gives for it; rejecting it is left to the engine.
C4_ForwardedUninitialized ==
    (lastOp.op \in ProcessOps /\ ~IsInit(obj[lastOp.self].h))
    => /\ Len(lastOp.calls) = 1
       /\ lastOp.calls[1].fn \in {"aic_processor_process_planar",
                                  "aic_processor_process_interleaved",
                                  "aic_processor_process_sequential"}
       /\ lastOp.calls[1].h = obj[lastOp.self].h
       /\ lastOp.ret = lastOp.calls[1].rc

\* C4 witness: a processing function has been called on a Processor that owns
\* a handle on which initialize never succeeded; the call reached the engine,
\* which answered that the processor is not initialized.
C4_Witness ==
    /\ lastOp.op \in ProcessOps
    /\ obj[lastOp.self].h \in Handles
    /\ ~engine[obj[lastOp.self].h].init
    /\ Len(lastOp.calls) = 1
    /\ lastOp.ret = "AIC_ERROR_CODE_MODEL_NOT_INITIALIZED"

LifeOps == {"dtor", "move_ctor", "move_assign"}

\* The object whose handle an operation passes to the engine: the Processor a
\* context is created from, the Model a Processor is created from, or the
\* object the member function is called on.
Receiver(o) == IF o.op \in CreateOps THEN o.other ELSE o.self

\* The last operation, if it is one of class kind that passes the object's
\* handle to the engine, passed the handle the object holds, and that handle,
\* if any, is live in the engine as one of that class.
ForwardedWithOwnHandle(kind, ops) ==
    (lastOp.op \in ops /\ obj[Receiver(lastOp)].kind = kind)
    => /\ lastOp.calls # <<>>
       /\ LET c == lastOp.calls[Len(lastOp.calls)] IN
          /\ c.h = obj[Receiver(lastOp)].h
          /\ c.h # NULL => (c.h \in LiveHandles(engine) /\ engine[c.h].kind = kind)

\* A step that destroys, moves from or assigns to an object of class kind
\* leaves every object of the classes in others as it was, leaves their handles
\* live in the engine, and calls nothing but the destroy function of kind, on
\* the handle the object itself held.
LeavesOthersAlone(kind, others) ==
    (lastOp'.op \in LifeOps /\ lastOp'.kind = kind)
    => /\ \A i \in Objs : obj[i].kind \in others => obj'[i] = obj[i]
       /\ \A x \in Handles :
            engine[x].kind \in others
            => /\ engine'[x].kind = engine[x].kind
               /\ engine'[x].init = engine[x].init
       /\ \A k \in 1..Len(lastOp'.calls) :
            /\ lastOp'.calls[k].fn = DestroyFn(kind)
            /\ lastOp'.calls[k].h = obj[lastOp'.self].h
            /\ obj[lastOp'.self].kind = kind

\* C5: destroying a Model (or moving from it) after Processors were created
\* from it changes no Processor object and destroys no Processor handle: the
\* only engine call is aic_model_destroy on the Model's own handle; and every
\* operation on a Processor is forwarded with the handle the Processor holds,
\* which is live.
C5_ModelDestroySafe ==
    /\ [](ForwardedWithOwnHandle("Processor",
              ProcessOps \cup {"initialize", "create_context", "create_vad_context"}))
    /\ [][LeavesOthersAlone("Model", {"Processor"})]_vars

\* C5 witness: a processing function has succeeded on a Processor whose Model
\* was destroyed after the Processor was created from it.
C5_Witness ==
    /\ lastOp.op \in ProcessOps
    /\ lastOp.ret = Success
    /\ obj[lastOp.self].h \in Handles
    /\ engine[obj[lastOp.self].h].parent = Junk
    /\ \A i \in Objs : obj[i].kind # "Model"

\* C6 as stated: the wrapper keeps two threads from having two engine calls in
\* progress on one Processor's handle.
C6_Original_Serialized == \A x \in Handles : inflight[x] <= 1

\* C6 amended: the wrapper does no locking; exclusion is left to the caller.
\* A thread inside initialize or a processing function never waits for another
\* thread, it has exactly one engine call in progress once it has made it, on
\* the handle of the Processor it was called on, and the engine calls in
\* progress on a handle are exactly those of the threads now inside a member
\* function of its Processor: two are in progress at once whenever two threads
\* run such calls of one Processor concurrently, and never with one thread.
C6_NoSerialization ==
    /\ \A t \in Threads : thr[t].pc = "called" => ENABLED Forward(t)
    /\ \A t \in Threads : thr[t].pc = "engine" => thr[t].h = obj[thr[t].self].h
    /\ \A x \in {NULL} \cup Pointers :
         inflight[x] = Cardinality({t \in Threads : thr[t].pc = "engine" /\ thr[t].h = x})

\* C6 witness: two threads have an engine call in progress on the same handle.
C6_Witness ==
    \E x \in Handles :
        /\ inflight[x] = 2
        /\ \A t \in Threads : thr[t].pc = "engine" /\ thr[t].h = x

StatusOps == CreateOps \cup ProcessOps \cup {"initialize", "reset", "set_parameter"}

\* C7 as stated: every status-returning wrapper operation makes exactly one
\* engine call and returns that call's status code unchanged.
C7_Original_OneEngineCall ==
    lastOp.op \in StatusOps
    => /\ Len(lastOp.calls) = 1
       /\ lastOp.ret = lastOp.calls[1].rc

\* The status of the one status-returning engine call is what the operation
\* returns; any other engine call is aic_set_sdk_wrapper_id(1), made first, by
\* Processor::create.
StatusIsEngineStatus ==
    lastOp.op \in StatusOps
    => /\ Len(StatusCalls(lastOp.calls)) = 1
       /\ lastOp.ret = StatusCalls(lastOp.calls)[1].rc
       /\ (lastOp.ret = Success) <=> (StatusCalls(lastOp.calls)[1].rc = "AIC_ERROR_CODE_SUCCESS")
       /\ \A k \in 1..Len(lastOp.calls) :
            lastOp.calls[k].rc = "void"
            => /\ lastOp.calls[k].fn = "aic_set_sdk_wrapper_id"
               /\ lastOp.calls[k].arg = <<1>>
               /\ lastOp.op = "create"
               /\ k = 1

\* aic_set_sdk_wrapper_id is called by the first Processor::create and by no
\* operation after it.
WrapperIdOnce ==
    /\ wrapper_id_set
       => \A k \in 1..Len(lastOp'.calls) : lastOp'.calls[k].fn # "aic_set_sdk_wrapper_id"
    /\ (~wrapper_id_set /\ lastOp'.op = "create")
       => /\ lastOp'.calls[1].fn = "aic_set_sdk_wrapper_id"
          /\ wrapper_id_set'

\* C7 amended: every status-returning wrapper operation and every create
\* function makes exactly one status-returning engine call and returns (or
\* stores in Result::error) exactly that call's status code, Success if and
\* only if the engine returned AIC_ERROR_CODE_SUCCESS; it makes no other engine
\* call, except that the first Processor::create of the program first calls
\* aic_set_sdk_wrapper_id(1), once.
C7_StatusIdentity == [](StatusIsEngineStatus) /\ [][WrapperIdOnce]_vars

\* C7 witness: the first Processor::create made two engine calls and stored the
\* engine's error code for the second.
C7_Witness ==
    /\ lastOp.op = "create"
    /\ Len(lastOp.calls) = 2
    /\ lastOp.calls[2].rc = "AIC_ERROR_CODE_INTERNAL_ERROR"
    /\ lastOp.ret = "AIC_ERROR_CODE_INTERNAL_ERROR"

\* C8: for each create function the Result is ok() exactly when the engine
\* returned success, and then the wrapper in it owns the handle the engine
\* wrote; when the engine returned an error the wrapper holds no handle, even
\* if the engine wrote a non-null pointer, and destroying it calls no destroy
\* function.  Building the Result destroys nothing.
C8_CreateResult ==
    lastOp.op \in CreateOps
    => LET c == StatusCalls(lastOp.calls)[1] IN
       /\ ok(lastOp.ret) <=> c.rc = "AIC_ERROR_CODE_SUCCESS"
       /\ ok(lastOp.ret)
          => /\ obj[lastOp.self].h = c.out
             /\ c.out \in LiveHandles(engine)
             /\ engine[c.out].kind = lastOp.kind
       /\ ~ok(lastOp.ret)
          => /\ obj[lastOp.self].h = NULL
             /\ DtorCalls(lastOp.kind, obj[lastOp.self].h) = <<>>
       /\ DestroyCalls(lastOp.calls) = <<>>
       /\ obj[lastOp.self].live /\ obj[lastOp.self].kind = lastOp.kind

\* C8 witness: a create function failed although the engine left a non-null
\* pointer behind; the wrapper in the Result holds no handle.
C8_Witness ==
    /\ lastOp.op \in CreateOps
    /\ ~ok(lastOp.ret)
    /\ StatusCalls(lastOp.calls)[1].out = Junk
    /\ obj[lastOp.self].live
    /\ obj[lastOp.self].h = NULL

\* The arguments and the processor are those of the processing call before.
SameProcessCall ==
    /\ lastOp.op \in ProcessOps
    /\ lastOp'.op \in ProcessOps
    /\ lastOp'.self = lastOp.self
    /\ obj' = obj
    /\ engine' = engine
    /\ lastOp.calls # <<>> /\ lastOp'.calls # <<>>
    /\ lastOp'.calls[1].arg[2] = lastOp.calls[1].arg[2]
    /\ lastOp'.calls[1].arg[3] = lastOp.calls[1].arg[3]

\* C9 as stated: the three processing functions are adapters over the same
\* engine operation: called one after the other on the same Processor in the
\* same state with the same num_channels and num_frames they invoke the same
\* engine function, and return the same ErrorCode when it answers the same.
C9_Original_SameEngineOperation ==
    [][SameProcessCall
       => /\ lastOp'.calls[1].fn = lastOp.calls[1].fn
          /\ lastOp'.calls[1].rc = lastOp.calls[1].rc => lastOp'.ret = lastOp.ret]_vars

\* C9 amended: the three processing functions are parallel adapters, each over
\* its own engine function (aic_processor_process_planar, _interleaved,
\* _sequential): each makes exactly one call of its own engine function with
\* the Processor's handle, the caller's buffer as it is (the wrapper converts
\* no layout) and num_channels and num_frames as given, and returns that call's
\* status; so they return the same ErrorCode whenever the engine answers its
\* three functions alike.
C9_OwnEngineFunction ==
    lastOp.op \in ProcessOps
    => /\ Len(lastOp.calls) = 1
       /\ lastOp.calls[1].fn =
             (CASE lastOp.op = "process_planar"      -> "aic_processor_process_planar"
                [] lastOp.op = "process_interleaved" -> "aic_processor_process_interleaved"
                [] lastOp.op = "process_sequential"  -> "aic_processor_process_sequential")
       /\ lastOp.calls[1].h = obj[lastOp.self].h
       /\ lastOp.calls[1].arg \in ProcessArgs(lastOp.op)
       /\ lastOp.ret = lastOp.calls[1].rc

\* C9 witness: process_sequential has succeeded on a two-channel buffer whose
\* sequential arrangement differs from the interleaved one.
C9_Witness ==
    /\ lastOp.op = "process_sequential"
    /\ lastOp.ret = Success
    /\ lastOp.calls[1].arg = <<Sequential(2, 2), 2, 2>>
    /\ Sequential(2, 2) # Interleaved(2, 2)

Contexts == {"ProcessorContext", "VadContext"}

\* A destructor step on a context that holds a handle calls the context's own
\* destroy function on it, once, and the engine then no longer holds it.
ContextDestroysOwnHandle ==
    (lastOp'.op = "dtor" /\ lastOp'.kind \in Contexts /\ obj[lastOp'.self].h # NULL)
    => /\ Len(lastOp'.calls) = 1
       /\ lastOp'.calls[1].fn = DestroyFn(lastOp'.kind)
       /\ lastOp'.calls[1].h = obj[lastOp'.self].h
       /\ engine'[obj[lastOp'.self].h] = Free
       /\ misuse' = {}

\* C10: destroying a Processor (or moving from it) changes no context object
\* created from it and destroys no context handle: the only engine call is
\* aic_processor_destroy on the Processor's own handle; every operation on a
\* context is still forwarded with the handle the context holds, which is
\* live, and the context's destructor destroys that handle, once.
C10_ProcessorDestroySafe ==
    /\ [](ForwardedWithOwnHandle("ProcessorContext", {"reset", "set_parameter"}))
    /\ [](ForwardedWithOwnHandle("VadContext", {"set_parameter"}))
    /\ [][LeavesOthersAlone("Processor", Contexts)]_vars
    /\ [][ContextDestroysOwnHandle]_vars

\* C10 witness: set_parameter has succeeded on a VadContext whose Processor
\* was destroyed after the context was created from it.
C10_Witness ==
    /\ lastOp.op = "set_parameter"
    /\ lastOp.kind = "VadContext"
    /\ lastOp.ret = Success
    /\ obj[lastOp.self].h \in Handles
    /\ engine[obj[lastOp.self].h].parent = Junk
    /\ \A i \in Objs : obj[i].kind # "Processor"

\* A Processor::create step leaves the Model it was given, every other object
\* and every handle that was live as they were, destroys nothing, and passes the
\* Model's handle to aic_processor_create; when it succeeds the new Processor
\* holds a handle that was not live before and that no other object holds.
CreateLeavesModel ==
    lastOp'.op = "create"
    => LET m == lastOp'.other
           p == lastOp'.self
       IN  /\ obj[m].kind = "Model"
           /\ \A i \in Objs : i # p => obj'[i] = obj[i]
           /\ \A x \in LiveHandles(engine) : engine'[x] = engine[x]
           /\ DestroyCalls(lastOp'.calls) = <<>>
           /\ StatusCalls(lastOp'.calls)[1].fn = "aic_processor_create"
           /\ StatusCalls(lastOp'.calls)[1].h = obj[m].h
           /\ obj'[p].kind = "Processor"
           /\ ok(lastOp'.ret)
              => /\ obj'[p].h \in Handles \ LiveHandles(engine)
                 /\ obj'[p].h # obj'[m].h
                 /\ \A j \in Objs : (j # p /\ obj'[j].live) => obj'[j].h # obj'[p].h
           /\ ~ok(lastOp'.ret) => obj'[p].h = NULL

AllControlOps == UNION {ControlOps(k) : k \in Kinds}

\* A step writes no field of a wrapper object that exists: every live object
\* is left as it was (a context-creating function constructs a new one).
NoFieldWritten == \A i \in Objs : obj[i].live => obj'[i] = obj[i]

\* A step destroys no handle: every live handle stays as it was in the engine
\* and no destroy function is called.
NoHandleDestroyed ==
    /\ \A x \in LiveHandles(engine) : engine'[x] = engine[x]
    /\ DestroyCalls(lastOp'.calls) = <<>>
    /\ misuse' = {}

\* Every engine call in progress was made with the handle its object holds,
\* which is live if the object holds one, and a control function that has returned made one call of an
\* engine function, with that handle.
ForwardedWithHeldHandle ==
    /\ \A t \in Threads :
         thr[t].pc \in {"engine", "ctl_engine"}
         => /\ thr[t].h = obj[thr[t].self].h
            /\ thr[t].h # NULL
               => /\ thr[t].h \in LiveHandles(engine)
                  /\ engine[thr[t].h].kind = obj[thr[t].self].kind
    /\ lastOp.op \in AllControlOps
       => /\ Len(lastOp.calls) = 1
          /\ lastOp.calls[1].h = obj[Receiver(lastOp)].h
          /\ lastOp.op \in ControlOps(obj[Receiver(lastOp)].kind)

Written(c) == IF c.out = <<>> THEN 0 ELSE c.out[1]

\* C13: ProcessorConfig::optimal(model), whenever it returns, returns a config
\* whose sample_rate is the model's optimal sample rate (what
\* aic_model_get_optimal_sample_rate gave for the model's handle), whose
\* num_frames is the model's optimal frame count queried for exactly that
\* sample rate and no other, whose num_channels is 1 and whose
\* allow_variable_frames is false, for every model.
C13_OptimalConfig ==
    (lastOp.op = "optimal" /\ ~Aborted)
    => LET c  == lastOp.ret
           sr == lastOp.calls[1]
           nf == lastOp.calls[2]
           h  == obj[lastOp.other].h
       IN  /\ Len(lastOp.calls) = 2
           /\ sr.fn = "aic_model_get_optimal_sample_rate" /\ sr.h = h
           /\ c.sample_rate = Written(sr)
           /\ nf.fn = "aic_model_get_optimal_num_frames" /\ nf.h = h
           /\ nf.arg = <<c.sample_rate>>
           /\ c.num_frames = Written(nf)
           /\ h # NULL => /\ c.sample_rate \in SampleRates
                          /\ c.num_frames = c.sample_rate \div 100
           /\ c.num_channels = 1
           /\ c.allow_variable_frames = FALSE

\* C13 witness: optimal has returned, for a model optimized for 16 kHz, a
\* config of 16000 Hz and the 160 frames that are optimal at that rate, to a
\* caller holding a config of two channels.
C13_Witness ==
    /\ lastOp.op = "optimal"
    /\ ~Aborted
    /\ obj[lastOp.other].h \in Handles
    /\ lastOp.ret = [sample_rate |-> 16000, num_channels |-> 1, num_frames |-> 160,
                     allow_variable_frames |-> FALSE]
    /\ config.num_channels = 2

\* Config r differs from cfg at most in the field num_channels, which is c.
OnlyNumChannels(r, cfg, c) ==
    /\ DOMAIN r = DOMAIN cfg
    /\ r.num_channels = c
    /\ r.sample_rate = cfg.sample_rate
    /\ r.num_frames = cfg.num_frames
    /\ r.allow_variable_frames = cfg.allow_variable_frames

\* Config r differs from cfg at most in the field allow_variable_frames, which is b.
OnlyAllowVariableFrames(r, cfg, b) ==
    /\ DOMAIN r = DOMAIN cfg
    /\ r.allow_variable_frames = b
    /\ r.sample_rate = cfg.sample_rate
    /\ r.num_frames = cfg.num_frames
    /\ r.num_channels = cfg.num_channels

\* For the config the caller holds and every c and b: each builder function
\* changes only its field, applying it twice is applying it once, and the two
\* give the same config in either order.
BuilderAlgebra ==
    \A c \in ConfigChannels, b \in BOOLEAN :
        /\ OnlyNumChannels(with_num_channels(config, c), config, c)
        /\ OnlyAllowVariableFrames(with_allow_variable_frames(config, b), config, b)
        /\ with_num_channels(with_num_channels(config, c), c) = with_num_channels(config, c)
        /\ with_allow_variable_frames(with_allow_variable_frames(config, b), b)
              = with_allow_variable_frames(config, b)
        /\ with_allow_variable_frames(with_num_channels(config, c), b)
              = with_num_channels(with_allow_variable_frames(config, b), c)

\* A step that calls a builder function leaves the receiver as it was and
\* returns a config that differs from it only in the function's field.
BuilderStep ==
    (/\ lastOp'.op \in {"with_num_channels", "with_allow_variable_frames"}
     /\ \/ lastOp'.op # lastOp.op
        \/ lastOp'.arg # lastOp.arg
        \/ lastOp'.ret # lastOp.ret)
    => /\ config' = config
       /\ lastOp'.op = "with_num_channels"
          => OnlyNumChannels(lastOp'.ret, config, lastOp'.arg[1])
       /\ lastOp'.op = "with_allow_variable_frames"
          => OnlyAllowVariableFrames(lastOp'.ret, config, lastOp'.arg[1])

\* C14: with_num_channels(c) returns a copy that differs from the receiver
\* only in num_channels = c and with_allow_variable_frames(b) one that differs
\* only in allow_variable_frames = b; neither changes the receiver, each is
\* idempotent and the two commute, for every config and every c and b.
C14_Builders == [](BuilderAlgebra) /\ [][BuilderStep]_vars

\* C14 witness: with_allow_variable_frames(true) has been called on a config
\* of 48000 Hz and two channels without variable frames; the receiver is as it
\* was and the copy returned has variable frames.
C14_Witness ==
    /\ lastOp.op = "with_allow_variable_frames"
    /\ lastOp.arg = <<TRUE>>
    /\ config = [sample_rate |-> 48000, num_channels |-> 2, num_frames |-> 480,
                 allow_variable_frames |-> FALSE]
    /\ lastOp.ret = [sample_rate |-> 48000, num_channels |-> 2, num_frames |-> 480,
                     allow_variable_frames |-> TRUE]

\* The engine parameter that carries the name of a wrapper parameter.
SameNamed(parameter) ==
    CASE parameter = "Bypass"                -> "AIC_PROCESSOR_PARAMETER_BYPASS"
      [] parameter = "EnhancementLevel"      -> "AIC_PROCESSOR_PARAMETER_ENHANCEMENT_LEVEL"
      [] parameter = "VoiceGain"             -> "AIC_PROCESSOR_PARAMETER_VOICE_GAIN"
      [] parameter = "SpeechHoldDuration"    -> "AIC_VAD_PARAMETER_SPEECH_HOLD_DURATION"
      [] parameter = "Sensitivity"           -> "AIC_VAD_PARAMETER_SENSITIVITY"
      [] parameter = "MinimumSpeechDuration" -> "AIC_VAD_PARAMETER_MINIMUM_SPEECH_DURATION"

\* A set_parameter(p, v) step passes the engine the parameter named like p and
\* the value v, on the context's handle; when it returns Success the value of
\* that parameter is v and every other parameter is as it was, and when it
\* returns anything else every parameter is as it was.
SetStores ==
    lastOp'.op = "set_parameter"
    => LET id == SameNamed(lastOp'.arg[1])
           v  == lastOp'.arg[2]
           c  == lastOp'.calls[1]
       IN  /\ c.fn = SetParameterFn(lastOp'.kind)
           /\ c.h = obj[lastOp'.self].h
           /\ c.arg = <<id, v>>
           /\ lastOp'.ret = c.rc
           /\ ok(lastOp'.ret) => param' = [param EXCEPT ![id] = v]
           /\ ~ok(lastOp'.ret) => param' = param

\* A get_parameter(p) step passes the engine the parameter named like p, on
\* the context's handle, changes no parameter and, on a context that holds a
\* handle, returns the current value of that parameter; called right after a
\* set_parameter(p, v) that returned Success on the same context, it returns v.
GetReturnsStored ==
    lastOp'.op = "get_parameter"
    => LET id == SameNamed(lastOp'.arg[1])
           c  == lastOp'.calls[1]
       IN  /\ c.fn = GetParameterFn(lastOp'.kind)
           /\ c.h = obj[lastOp'.self].h
           /\ c.arg = <<id>>
           /\ param' = param
           /\ obj[lastOp'.self].h # NULL
              => /\ ~Aborted'
                 /\ lastOp'.ret = param[id]
                 /\ (/\ lastOp.op = "set_parameter"
                     /\ lastOp.self = lastOp'.self
                     /\ lastOp.arg[1] = lastOp'.arg[1]
                     /\ ok(lastOp.ret))
                    => lastOp'.ret = lastOp.arg[2]

\* C15: parameter round trip: after set_parameter(p, v) has returned Success
\* on a context, get_parameter(p) on that context returns v as long as no
\* other set_parameter(p, ...) has succeeded in between, and the other
\* parameters are unchanged; set and get pass the engine the same parameter
\* identifier, the one named like p; a set_parameter that does not return
\* Success leaves the value get_parameter returns unchanged.
C15_ParameterRoundTrip == [][SetStores /\ GetReturnsStored]_vars

\* C15 witness: get_parameter(EnhancementLevel) has returned the value 1 that
\* set_parameter had stored, while VoiceGain still has its initial value 2 and
\* Bypass the value 1 it was set to.
C15_Witness ==
    /\ lastOp.op = "get_parameter"
    /\ lastOp.arg = <<"EnhancementLevel">>
    /\ obj[lastOp.self].h \in Handles
    /\ lastOp.ret = 1
    /\ param["AIC_PROCESSOR_PARAMETER_VOICE_GAIN"] = 2
    /\ param["AIC_PROCESSOR_PARAMETER_BYPASS"] = 1

====
